---- MODULE Spec2Model ----
(***************************************************************************)
(* A model of tv_grab_fr_sfr.py: the XMLTV grabber for the SFR EPG feed.   *)
(*                                                                         *)
(* Time is counted in whole hours of UTC; hour 0 is 00:00 UTC of the day   *)
(* the program runs ("today" is calendar date 0, dates are integers).  A   *)
(* time zone is its UTC offset in whole hours.  The window's edges and the *)
(* 05:00 anchor of the SFR broadcast day fall on whole hours, so an        *)
(* instant inside an hour is classified exactly like the hour's start.     *)
(*                                                                         *)
(* Strings that the program transforms (channel ids) are sequences of      *)
(* one-character strings.                                                  *)
(***************************************************************************)
EXTENDS Integers, Sequences, FiniteSets, TLC

VARIABLES
    \* the environment of one run
    tzLocal,          \* UTC offset of pytz.reference.LocalTimezone at `start`
    tzLocalStop,      \* ... and at `stop` (differs across a DST change)
    tzParis,          \* UTC offset of Europe/Paris at 05:00 of start.date()
    tzParisStop,      \* ... and at 05:00 of stop.date()
    argDays,          \* --days
    argOffset,        \* --offset
    configure,        \* --configure
    configFile,       \* the configuration file
    todayChannels,    \* the channel elements of today's feed
    \* _main and SFRXMLTVGrabber
    pc,               \* the place of the run in the program
    error,            \* the exception that ended the run, "none" if none
    exitCode,         \* -1 while running
    requests,         \* every date asked of _get_programs, in order
    channels,         \* self._channels, in insertion order
    xmltv_ids,        \* the ids read from the configuration file
    loggedError,      \* logger.error was called
    writeCalled,      \* write_xmltv was called
    \* _get_xmltv_data
    days, warned, start, stop, sfr_fetch_dates,
    dateIdx,          \* position of the `for date in sfr_fetch_dates` loop
    nRecords,         \* programme records read so far
    encountered,      \* every programme record iterated, in order
    programs_xml, valid_xmltv_ids,
    document,         \* the tree returned by _get_xmltv_data
    outputWritten,    \* xmltv_data.write ran
    \* _configure
    cfgIdx, select_all, select_none, answer, cfg_ids,
    nInvalid,         \* invalid answers given to the current prompt
    prompted,         \* every call of input(): channel index and stripped answer
    writtenConfig     \* the ids _write_configuration wrote

envVars  == <<tzLocal, tzLocalStop, tzParis, tzParisStop, argDays, argOffset,
              configure, configFile, todayChannels>>
mainVars == <<pc, error, exitCode, requests, channels, xmltv_ids, loggedError,
              writeCalled>>
winVars  == <<days, warned, start, stop, sfr_fetch_dates>>
asmVars  == <<dateIdx, nRecords, encountered, programs_xml, valid_xmltv_ids,
              document, outputWritten>>
cfgVars  == <<cfgIdx, select_all, select_none, answer, cfg_ids, nInvalid,
              prompted, writtenConfig>>
vars     == <<envVars, mainVars, winVars, asmVars, cfgVars>>

----------------------------------------------------------------------------
(* Program constants *)

MAX_DAYS == 14

SFR_START_HOUR == 5

(* Bounds of the model *)

\* local time zones range over UTC-MaxWest .. UTC+MaxEast
MaxWest == 12

MaxEast == 14

\* --days ranges over -1 .. MaxSmallDays and MAX_DAYS-1 .. MAX_DAYS+MaxOver
MaxSmallDays == 3

MaxOver == 2

\* --offset ranges over -MaxBack .. MaxSmallDays and MAX_DAYS-1 .. MAX_DAYS+1
MaxBack == 2

----------------------------------------------------------------------------
(* Helpers *)

Min(a, b) == IF a < b THEN a ELSE b

Max(a, b) == IF a > b THEN a ELSE b

Range(s) == {s[i] : i \in 1..Len(s)}

\* None, for a text and for an identifier (no character is this token)
NONE == "None"

NONE_ID == <<"None">>

\* no tree yet
NoDocument == [returned |-> FALSE, children |-> <<>>]

\* the configuration file: absent, or its lines
MissingFile == [exists |-> FALSE, lines |-> <<>>]

File(lines) == [exists |-> TRUE, lines |-> lines]

----------------------------------------------------------------------------
(* The window resolver of _get_xmltv_data *)

\* a variant of the clamp without the min
ClampDaysNoMin(d, off) ==
    IF d + off > MAX_DAYS THEN MAX_DAYS - off ELSE d

\* days after `if days + offset > self._MAX_DAYS: days = min(...)`
ClampDays(d, off) ==
    IF d + off > MAX_DAYS THEN Min(MAX_DAYS - off, MAX_DAYS) ELSE d

\* the instant of 00:00 local time on calendar date `date`
LocalMidnight(date, tz) == 24 * date - tz

\* _SFR_TIMEZONE.localize(datetime.combine(d, _SFR_START_TIME)):
\* 05:00 Paris time on the calendar date of d
ParisAnchor(date, tzP) == 24 * date + SFR_START_HOUR - tzP

\* [start.date() + timedelta(days=d) for d in range(days)]
DateRange(startDate, n) == [i \in 1..Max(n, 0) |-> startDate + i - 1]

\* a variant that ranges over one day too many
FetchDatesOffByOne(startDate, stopDate, st, sp, n, tzP, tzP2) ==
    LET base == DateRange(startDate, n + 1)
    IN  IF st < ParisAnchor(startDate, tzP)
        THEN <<startDate - 1>> \o base
        ELSE IF sp > ParisAnchor(stopDate, tzP2)
             THEN Append(base, stopDate)
             ELSE base

\* a variant without the leading spillover date
FetchDatesNoSpillover(startDate, stopDate, st, sp, n, tzP, tzP2) ==
    LET base == DateRange(startDate, n)
    IN  IF sp > ParisAnchor(stopDate, tzP2)
        THEN Append(base, stopDate)
        ELSE base

\* sfr_fetch_dates: the dates of the window and the if/elif spillover date
FetchDates(startDate, stopDate, st, sp, n, tzP, tzP2) ==
    LET base == DateRange(startDate, n)
    IN  IF st < ParisAnchor(startDate, tzP)
        THEN <<startDate - 1>> \o base
        ELSE IF sp > ParisAnchor(stopDate, tzP2)
             THEN Append(base, stopDate)
             ELSE base

\* start.date() and stop.date(): today is date 0, and adding a timedelta to an
\* aware datetime moves its wall clock
StartDate == argOffset

StopDate == argOffset + days

Clamp ==
    /\ pc = "clamp"
    /\ days' = ClampDays(argDays, argOffset)
    /\ warned' = (argDays + argOffset > MAX_DAYS)
    /\ pc' = "window"
    /\ UNCHANGED <<envVars, error, exitCode, requests, channels, xmltv_ids,
                   loggedError, writeCalled, start, stop, sfr_fetch_dates,
                   asmVars, cfgVars>>

BuildWindow ==
    /\ pc = "window"
    /\ start' = LocalMidnight(StartDate, tzLocal)
    /\ stop' = LocalMidnight(StopDate, IF days = 0 THEN tzLocal ELSE tzLocalStop)
    /\ pc' = "dates"
    /\ UNCHANGED <<envVars, error, exitCode, requests, channels, xmltv_ids,
                   loggedError, writeCalled, days, warned, sfr_fetch_dates,
                   asmVars, cfgVars>>

BuildFetchDates ==
    /\ pc = "dates"
    /\ sfr_fetch_dates' =
           FetchDates(StartDate, StopDate, start, stop, days, tzParis,
                      IF days = 0 THEN tzParis ELSE tzParisStop)
    /\ pc' = "fetch"
    /\ UNCHANGED <<envVars, error, exitCode, requests, channels, xmltv_ids,
                   loggedError, writeCalled, days, warned, start, stop,
                   asmVars, cfgVars>>

----------------------------------------------------------------------------
(* Channel identifiers and the channel catalog *)

RECURSIVE ReplaceAll(_, _, _)
\* str.replace(c, r) on a string given as a sequence of characters
ReplaceAll(s, c, r) ==
    IF s = <<>> THEN <<>>
    ELSE (IF Head(s) = c THEN r ELSE <<Head(s)>>) \o ReplaceAll(Tail(s), c, r)

DomainSuffix == <<".", "t", "v", ".", "s", "f", "r", ".", "f", "r">>

SfrToXmltvId(sfr_id) ==
    ReplaceAll(ReplaceAll(sfr_id, "_", <<"-">>), "+", <<"P", "L", "U", "S">>)
        \o DomainSuffix

\* channels[xmltv_id] = {...}: a new key goes last, a known key keeps its place
DictPut(d, entry) ==
    IF \E i \in 1..Len(d) : d[i].xmltv_id = entry.xmltv_id
    THEN [i \in 1..Len(d) |->
              IF d[i].xmltv_id = entry.xmltv_id THEN entry ELSE d[i]]
    ELSE Append(d, entry)

RECURSIVE CollectChannels(_, _)
CollectChannels(elems, acc) ==
    IF elems = <<>> THEN acc
    ELSE LET c == Head(elems)
         IN  CollectChannels(
                 Tail(elems),
                 IF c.id # NONE_ID /\ c.display_name # NONE
                 THEN DictPut(acc, [xmltv_id |-> SfrToXmltvId(c.id),
                                    sfr_id |-> c.id,
                                    display_name |-> c.display_name])
                 ELSE acc)

RetrieveAvailableChannels(elems) == CollectChannels(elems, <<>>)

\* the keys of self._channels
ChannelKeys == {channels[i].xmltv_id : i \in 1..Len(channels)}

DisplayName(xmltv_id) ==
    LET i == CHOOSE k \in 1..Len(channels) : channels[k].xmltv_id = xmltv_id
    IN  channels[i].display_name

----------------------------------------------------------------------------
(* _main up to the call of write_xmltv *)

\* the lines that match ^\s*channel\s*=\s*(.+)\s*$ give their value
ReadConfiguration(lines) ==
    LET Matches(l) == l.key = "channel" /\ l.value # <<>>
        kept == SelectSeq(lines, Matches)
    IN  [i \in 1..Len(kept) |-> kept[i].value]

\* SFRXMLTVGrabber(...): the catalog is read from today's feed
Construct ==
    /\ pc = "start"
    /\ requests' = Append(requests, 0)
    /\ channels' = RetrieveAvailableChannels(todayChannels)
    /\ pc' = "main"
    /\ UNCHANGED <<envVars, error, exitCode, xmltv_ids, loggedError,
                   writeCalled, winVars, asmVars, cfgVars>>

\* ... and the fetch of today's feed raises
ConstructFail ==
    /\ pc = "start"
    /\ requests' = Append(requests, 0)
    /\ error' = "fetch"
    /\ exitCode' = 1
    /\ pc' = "crashed"
    /\ UNCHANGED <<envVars, channels, xmltv_ids, loggedError, writeCalled,
                   winVars, asmVars, cfgVars>>

MainConfigure ==
    /\ pc = "main"
    /\ configure
    /\ pc' = "configure"
    /\ UNCHANGED <<envVars, error, exitCode, requests, channels, xmltv_ids,
                   loggedError, writeCalled, winVars, asmVars, cfgVars>>

MainNoConfigFile ==
    /\ pc = "main"
    /\ ~configure
    /\ ~configFile.exists
    /\ loggedError' = TRUE
    /\ exitCode' = 1
    /\ pc' = "exited"
    /\ UNCHANGED <<envVars, error, requests, channels, xmltv_ids, writeCalled,
                   winVars, asmVars, cfgVars>>

\* the file exists: read it, log an error if it gives no id, call write_xmltv
MainReadConfig ==
    /\ pc = "main"
    /\ ~configure
    /\ configFile.exists
    /\ xmltv_ids' = ReadConfiguration(configFile.lines)
    /\ loggedError' = (xmltv_ids' = <<>>)
    /\ writeCalled' = TRUE
    /\ pc' = "clamp"
    /\ UNCHANGED <<envVars, error, exitCode, requests, channels, winVars,
                   asmVars, cfgVars>>

----------------------------------------------------------------------------
(* The document assembler of _get_xmltv_data and write_xmltv *)

\* the programme records read over one run
MaxRecords == 2

\* strptime(s, '%Y%m%d%H%M%S %z') as an instant: the local fields less the offset
Strptime(ts) == ts.loc - ts.off

\* a timestamp of the feed for instant t, written with UTC offset off
Stamp(t, off) == [loc |-> t + off, off |-> off]

\* the element _parse_program_xmltv builds, as far as the assembler reads it
ParseProgramXmltv(r) ==
    [tag |-> "programme", channel |-> SfrToXmltvId(r.channel),
     start |-> r.start, stop |-> r.stop]

ParseChannelXmltv(xmltv_id) ==
    [tag |-> "channel", id |-> xmltv_id, display_name |-> DisplayName(xmltv_id)]

\* `if program_stop < start or program_start >= stop: continue`
Skipped(program_start, program_stop, st, sp) ==
    program_stop < st \/ program_start >= sp

Selected(r) == SfrToXmltvId(r.channel) \in Range(xmltv_ids)

\* whether the loop body keeps record r
Retained(r) ==
    /\ Selected(r)
    /\ LET program_xml == ParseProgramXmltv(r)
       IN  ~Skipped(Strptime(program_xml.start), Strptime(program_xml.stop),
                    start, stop)

\* the requested ids the catalog knows
RequestedIds == Range(xmltv_ids) \cap ChannelKeys

\* the ids the channel elements are built from
EmittedIds == valid_xmltv_ids

\* the programme records a feed may hold: on two channels, around both edges
\* of the window, stamped with the Paris offset or with UTC
EdgeTimes ==
    {<<Stamp(t, tzParis), Stamp(t + 1, tzParis)>> :
         t \in {start - 2, start - 1, start, stop - 1, stop}}
    \cup {<<Stamp(start - 1, 0), Stamp(start + 1, tzParis)>>}

Programmes ==
    {[channel |-> <<"a">>, start |-> p[1], stop |-> p[2]] : p \in EdgeTimes}
    \cup {[channel |-> <<"b", "+">>, start |-> Stamp(t, tzParis),
           stop |-> Stamp(t + 1, tzParis)] : t \in {start - 1, stop - 1}}

FetchOk ==
    /\ pc = "fetch"
    /\ dateIdx <= Len(sfr_fetch_dates)
    /\ requests' = Append(requests, sfr_fetch_dates[dateIdx])
    /\ pc' = "iter"
    /\ UNCHANGED <<envVars, error, exitCode, channels, xmltv_ids, loggedError,
                   writeCalled, winVars, asmVars, cfgVars>>

\* a variant that goes on to the next date after a failed fetch
FetchFailSwallowed ==
    /\ pc = "fetch"
    /\ dateIdx <= Len(sfr_fetch_dates)
    /\ requests' = Append(requests, sfr_fetch_dates[dateIdx])
    /\ error' = "fetch"
    /\ dateIdx' = dateIdx + 1
    /\ UNCHANGED <<envVars, pc, exitCode, channels, xmltv_ids, loggedError,
                   writeCalled, winVars, nRecords, encountered, programs_xml,
                   valid_xmltv_ids, document, outputWritten, cfgVars>>

\* urlopen, gzip.decompress or lxml.etree.fromstring raises
FetchFail ==
    /\ pc = "fetch"
    /\ dateIdx <= Len(sfr_fetch_dates)
    /\ requests' = Append(requests, sfr_fetch_dates[dateIdx])
    /\ error' = "fetch"
    /\ exitCode' = 1
    /\ pc' = "crashed"
    /\ UNCHANGED <<envVars, channels, xmltv_ids, loggedError, writeCalled,
                   winVars, asmVars, cfgVars>>

\* one turn of `for sfr_program_xml in ...iter(tag='programme')`
ProcessProgramme ==
    /\ pc = "iter"
    /\ nRecords < MaxRecords
    /\ \E r \in Programmes :
        /\ encountered' =
               Append(encountered, [date |-> sfr_fetch_dates[dateIdx], prog |-> r])
        /\ IF Retained(r)
           THEN /\ valid_xmltv_ids' =
                       valid_xmltv_ids \cup {ParseProgramXmltv(r).channel}
                /\ programs_xml' = Append(programs_xml, ParseProgramXmltv(r))
           ELSE UNCHANGED <<valid_xmltv_ids, programs_xml>>
    /\ nRecords' = nRecords + 1
    /\ UNCHANGED <<envVars, mainVars, winVars, dateIdx, document,
                   outputWritten, cfgVars>>

\* the feed of the date is exhausted
EndFeed ==
    /\ pc = "iter"
    /\ dateIdx' = dateIdx + 1
    /\ pc' = "fetch"
    /\ UNCHANGED <<envVars, error, exitCode, requests, channels, xmltv_ids,
                   loggedError, writeCalled, winVars, nRecords, encountered,
                   programs_xml, valid_xmltv_ids, document, outputWritten,
                   cfgVars>>

LoopDone ==
    /\ pc = "fetch"
    /\ dateIdx > Len(sfr_fetch_dates)
    /\ pc' = "channels"
    /\ UNCHANGED <<envVars, error, exitCode, requests, channels, xmltv_ids,
                   loggedError, writeCalled, winVars, asmVars, cfgVars>>

\* the orders in which a set may be iterated
Orders(S) ==
    {f \in [1..Cardinality(S) -> S] : \A x \in S : \E i \in DOMAIN f : f[i] = x}

\* a variant that puts the programme elements first
ProgrammesFirst(channel_elems, programme_elems) ==
    programme_elems \o channel_elems

\* root_xml.append(channel) for each id, then root_xml.extend(programs_xml)
RootChildren(channel_elems, programme_elems) ==
    channel_elems \o programme_elems

\* the channel elements, the programme elements, then the return
AssembleDocument ==
    /\ pc = "channels"
    /\ EmittedIds \subseteq ChannelKeys
    /\ \E order \in Orders(EmittedIds) :
           document' =
               [returned |-> TRUE,
                children |->
                    RootChildren(
                        [i \in 1..Len(order) |-> ParseChannelXmltv(order[i])],
                        programs_xml)]
    /\ pc' = "write"
    /\ UNCHANGED <<envVars, error, exitCode, requests, channels, xmltv_ids,
                   loggedError, writeCalled, winVars, dateIdx, nRecords,
                   encountered, programs_xml, valid_xmltv_ids, outputWritten,
                   cfgVars>>

\* self._channels[xmltv_id] raises KeyError
AssembleKeyError ==
    /\ pc = "channels"
    /\ ~(EmittedIds \subseteq ChannelKeys)
    /\ error' = "KeyError"
    /\ exitCode' = 1
    /\ pc' = "crashed"
    /\ UNCHANGED <<envVars, requests, channels, xmltv_ids, loggedError,
                   writeCalled, winVars, asmVars, cfgVars>>

\* xmltv_data.write(output_file, ...), then _main returns
WriteOutput ==
    /\ pc = "write"
    /\ outputWritten' = TRUE
    /\ exitCode' = 0
    /\ pc' = "exited"
    /\ UNCHANGED <<envVars, error, requests, channels, xmltv_ids, loggedError,
                   writeCalled, winVars, dateIdx, nRecords, encountered,
                   programs_xml, valid_xmltv_ids, document, cfgVars>>

----------------------------------------------------------------------------
(* _configure *)

\* invalid answers accepted by the model at one prompt
MaxInvalid == 1

\* the channels of a generated catalog
MaxChannels == 3

YES == <<"yes">>

NO == <<"no">>

ALL == <<"all">>

NONE_ANSWER == <<"none">>

\* answers = ['yes', 'no', 'all', 'none']
Answers == {YES, NO, ALL, NONE_ANSWER}

\* a line typed at the prompt is a sequence of words and blanks
IsBlank(c) == c = " "

RECURSIVE LStrip(_)
LStrip(s) == IF s # <<>> /\ IsBlank(Head(s)) THEN LStrip(Tail(s)) ELSE s

RECURSIVE RStrip(_)
RStrip(s) ==
    IF s # <<>> /\ IsBlank(s[Len(s)])
    THEN RStrip(SubSeq(s, 1, Len(s) - 1))
    ELSE s

\* str.strip()
Strip(s) == RStrip(LStrip(s))

\* `answer in answers or answer == ''`
Accepted(a) == a \in Answers \/ a = <<>>

\* a variant that ignores the select_all latch
AppendsOnYesOnly(sel_all, a) == a = YES

\* `if select_all or answer == 'yes'`
Appends(sel_all, a) == sel_all \/ a = YES

Latched == select_all \/ select_none

\* what may be typed at a prompt
TypedLines ==
    {YES, <<" ", "yes", " ">>, NO, ALL, NONE_ANSWER, <<>>, <<" ">>,
     <<"maybe">>, <<"yes", " ", "yes">>}

\* the prompt is answered with something else than yes, no, all, none or ''
ConfigurePromptInvalid ==
    /\ pc = "configure"
    /\ cfgIdx <= Len(channels)
    /\ ~Latched
    /\ nInvalid < MaxInvalid
    /\ \E typed \in TypedLines :
        /\ ~Accepted(Strip(typed))
        /\ answer' = Strip(typed)
        /\ prompted' = Append(prompted, [ch |-> cfgIdx, answer |-> Strip(typed)])
    /\ nInvalid' = nInvalid + 1
    /\ UNCHANGED <<envVars, mainVars, winVars, asmVars, cfgIdx, select_all,
                   select_none, cfg_ids, writtenConfig>>

\* the prompt is answered: the rest of the loop body for this channel
ConfigureAnswer ==
    /\ pc = "configure"
    /\ cfgIdx <= Len(channels)
    /\ ~Latched
    /\ \E typed \in TypedLines :
        /\ Accepted(Strip(typed))
        /\ answer' = Strip(typed)
        /\ prompted' = Append(prompted, [ch |-> cfgIdx, answer |-> Strip(typed)])
    /\ select_all' = (answer' = ALL)
    /\ select_none' = (answer' = NONE_ANSWER)
    /\ cfg_ids' = IF Appends(select_all', answer')
                  THEN Append(cfg_ids, channels[cfgIdx].xmltv_id)
                  ELSE cfg_ids
    /\ cfgIdx' = cfgIdx + 1
    /\ nInvalid' = 0
    /\ UNCHANGED <<envVars, mainVars, winVars, asmVars, writtenConfig>>

\* the loop body for a channel after 'all' or 'none': no prompt
ConfigureLatched ==
    /\ pc = "configure"
    /\ cfgIdx <= Len(channels)
    /\ Latched
    /\ cfg_ids' = IF Appends(select_all, answer)
                  THEN Append(cfg_ids, channels[cfgIdx].xmltv_id)
                  ELSE cfg_ids
    /\ cfgIdx' = cfgIdx + 1
    /\ UNCHANGED <<envVars, mainVars, winVars, asmVars, select_all,
                   select_none, answer, nInvalid, prompted, writtenConfig>>

\* _write_configuration(xmltv_ids, config_file), then sys.exit()
ConfigureWrite ==
    /\ pc = "configure"
    /\ cfgIdx > Len(channels)
    /\ writtenConfig' = [written |-> TRUE, ids |-> cfg_ids]
    /\ exitCode' = 0
    /\ pc' = "exited"
    /\ UNCHANGED <<envVars, error, requests, channels, xmltv_ids, loggedError,
                   writeCalled, winVars, asmVars, cfgIdx, select_all,
                   select_none, answer, cfg_ids, nInvalid, prompted>>

----------------------------------------------------------------------------
(* Initial values shared by the specifications *)

InitMain ==
    /\ error = "none"
    /\ exitCode = -1
    /\ requests = <<>>
    /\ channels = <<>>
    /\ xmltv_ids = <<>>
    /\ loggedError = FALSE
    /\ writeCalled = FALSE

InitWindow ==
    /\ days = argDays
    /\ warned = FALSE
    /\ start = 0
    /\ stop = 0
    /\ sfr_fetch_dates = <<>>

InitAssemble ==
    /\ dateIdx = 1
    /\ nRecords = 0
    /\ encountered = <<>>
    /\ programs_xml = <<>>
    /\ valid_xmltv_ids = {}
    /\ document = NoDocument
    /\ outputWritten = FALSE

InitConfigure ==
    /\ cfgIdx = 1
    /\ select_all = FALSE
    /\ select_none = FALSE
    /\ answer = <<>>
    /\ cfg_ids = <<>>
    /\ nInvalid = 0
    /\ prompted = <<>>
    /\ writtenConfig = [written |-> FALSE, ids |-> <<>>]

----------------------------------------------------------------------------
(* SpecWindow: the window resolver over every (days, offset) and time zone *)

DaysArgs == (-1..MaxSmallDays) \cup ((MAX_DAYS - 1)..(MAX_DAYS + MaxOver))

OffsetArgs == ((0 - MaxBack)..MaxSmallDays) \cup ((MAX_DAYS - 1)..(MAX_DAYS + 1))

LocalZones == (0 - MaxWest)..MaxEast

\* CET and CEST
ParisZones == {1, 2}

InitW ==
    /\ argDays \in DaysArgs
    /\ argOffset \in OffsetArgs
    /\ tzLocal \in LocalZones
    /\ tzLocalStop \in {tzLocal - 1, tzLocal, tzLocal + 1}
    /\ tzParis \in ParisZones
    /\ tzParisStop \in ParisZones
    /\ configure = FALSE
    /\ configFile = MissingFile
    /\ todayChannels = <<>>
    /\ pc = "clamp"
    /\ InitMain /\ InitWindow /\ InitAssemble /\ InitConfigure

NextW == Clamp \/ BuildWindow \/ BuildFetchDates

SpecWindow == InitW /\ [][NextW]_vars

----------------------------------------------------------------------------
(* SpecGrab: a run of _main without --configure *)

ChanA == [id |-> <<"a">>, display_name |-> "A"]

ChanB == [id |-> <<"b", "+">>, display_name |-> "B"]

ChanC == [id |-> <<"c", "_">>, display_name |-> "C"]

\* today's feed: every channel named, or one without a name and one without id
GrabFeeds ==
    {<<ChanA, ChanB, ChanC>>,
     <<ChanA, [id |-> <<"b", "+">>, display_name |-> NONE],
       [id |-> NONE_ID, display_name |-> "X"]>>}

ChannelLine(sfr_id) == [key |-> "channel", value |-> SfrToXmltvId(sfr_id)]

CommentLine == [key |-> "comment", value |-> <<>>]

ConfigFiles ==
    {MissingFile, File(<<>>), File(<<CommentLine>>),
     File(<<ChannelLine(<<"a">>)>>),
     File(<<ChannelLine(<<"a">>), ChannelLine(<<"b", "+">>)>>),
     File(<<CommentLine, ChannelLine(<<"b", "+">>)>>)}

\* Paris, and a zone west of the 05:00 anchor
GrabZones == {1, -5}

InitG ==
    /\ argDays = 1
    /\ argOffset = 0
    /\ tzLocal \in GrabZones
    /\ tzLocalStop = tzLocal
    /\ tzParis = 1
    /\ tzParisStop = 1
    /\ configure = FALSE
    /\ configFile \in ConfigFiles
    /\ todayChannels \in GrabFeeds
    /\ pc = "start"
    /\ InitMain /\ InitWindow /\ InitAssemble /\ InitConfigure

NextG ==
    \/ Construct \/ ConstructFail
    \/ MainNoConfigFile \/ MainReadConfig
    \/ Clamp \/ BuildWindow \/ BuildFetchDates
    \/ FetchOk \/ FetchFail \/ ProcessProgramme \/ EndFeed \/ LoopDone
    \/ AssembleDocument \/ AssembleKeyError \/ WriteOutput

SpecGrab == InitG /\ [][NextG]_vars

----------------------------------------------------------------------------
(* SpecConfigure: a run of _main with --configure *)

\* today's feed with n named channels "x", "xx", ...
GeneratedFeed(n) ==
    [i \in 1..n |-> [id |-> [j \in 1..i |-> "x"], display_name |-> "X"]]

\* ... or with two vendor ids that give the same output id
CollidingFeed ==
    <<ChanC, [id |-> <<"c", "-">>, display_name |-> "C2"], ChanA>>

ConfigureFeeds ==
    {GeneratedFeed(n) : n \in 0..MaxChannels} \cup {CollidingFeed}

InitC ==
    /\ argDays = 1
    /\ argOffset = 0
    /\ tzLocal = 1
    /\ tzLocalStop = 1
    /\ tzParis = 1
    /\ tzParisStop = 1
    /\ configure = TRUE
    /\ configFile = MissingFile
    /\ todayChannels \in ConfigureFeeds
    /\ pc = "start"
    /\ InitMain /\ InitWindow /\ InitAssemble /\ InitConfigure

NextC ==
    \/ Construct \/ ConstructFail \/ MainConfigure
    \/ ConfigurePromptInvalid \/ ConfigureAnswer \/ ConfigureLatched
    \/ ConfigureWrite

SpecConfigure == InitC /\ [][NextC]_vars

----------------------------------------------------------------------------
(* Claims about the window resolver, checked under SpecWindow *)

StrictlyIncreasing(s) == \A i \in 1..(Len(s) - 1) : s[i] < s[i + 1]

\* C3: for days >= 0 and offset + days <= 14 the fetch-date list is the `days`
\* consecutive dates from start.date(), plus at most one spillover date, either
\* the previous date in front or stop.date() at the end, never both; so it has
\* between days and days + 1 entries and is strictly increasing.
C3_FetchDateList ==
    (pc = "fetch" /\ argDays >= 0 /\ argOffset + argDays <= MAX_DAYS) =>
        LET base == [i \in 1..argDays |-> argOffset + i - 1]
        IN  /\ sfr_fetch_dates \in {base,
                                    <<argOffset - 1>> \o base,
                                    base \o <<argOffset + argDays>>}
            /\ Len(sfr_fetch_dates) >= argDays
            /\ Len(sfr_fetch_dates) <= argDays + 1
            /\ StrictlyIncreasing(sfr_fetch_dates)

\* a two-day window with the leading spillover date
C3_Witness ==
    /\ pc = "fetch"
    /\ argDays = 2
    /\ argOffset + argDays <= MAX_DAYS
    /\ sfr_fetch_dates = <<argOffset - 1, argOffset, argOffset + 1>>

\* C4 as stated: for offset <= 14 and offset + days > 14 the effective days is
\* exactly 14 - offset, not negative, a warning is logged and offset + days
\* <= 14 afterwards; otherwise days is unchanged and nothing is logged.
C4_Original ==
    (pc # "clamp" /\ argOffset <= MAX_DAYS) =>
        IF argOffset + argDays > MAX_DAYS
        THEN /\ days = MAX_DAYS - argOffset
             /\ days >= 0
             /\ warned
             /\ argOffset + days <= MAX_DAYS
        ELSE days = argDays /\ ~warned

\* C4 amended: the effective days is 14 - offset for 0 <= offset <= 14 and 14
\* for a negative offset (the code takes min(14 - offset, 14)); it is not
\* negative, a warning is logged and offset + days <= 14 afterwards; otherwise
\* days is unchanged and nothing is logged.
C4_Clamp ==
    (pc # "clamp" /\ argOffset <= MAX_DAYS) =>
        IF argOffset + argDays > MAX_DAYS
        THEN /\ argOffset >= 0 => days = MAX_DAYS - argOffset
             /\ argOffset < 0 => days = MAX_DAYS
             /\ days >= 0
             /\ warned
             /\ argOffset + days <= MAX_DAYS
        ELSE days = argDays /\ ~warned

\* a clamped request with a negative offset, whose list is built from 14 days
C4_Witness ==
    /\ pc = "fetch"
    /\ argOffset < 0
    /\ argOffset + argDays > MAX_DAYS
    /\ warned
    /\ days = MAX_DAYS
    /\ Len(sfr_fetch_dates) = MAX_DAYS + 1

\* The calendar date of the feed that holds a program starting at instant t,
\* when the feed of date D holds the programs whose Paris-local start lies in
\* [05:00 on D, 05:00 on D+1)
BroadcastDate(t, tzP) == (t + tzP - SFR_START_HOUR) \div 24

\* C5: with one local UTC offset and days >= 1, the feed date of every program
\* that starts inside [start, stop) is in the fetch-date list.
C5_WindowCoverage ==
    (/\ pc = "fetch"
     /\ days >= 1
     /\ tzLocalStop = tzLocal
     /\ tzParisStop = tzParis) =>
        \A t \in start..(stop - 1) :
            BroadcastDate(t, tzParis) \in Range(sfr_fetch_dates)

\* the Paris instance: a one-day window from local midnight, whose list holds
\* the previous date, the feed of a program that starts at 03:00
C5_Witness ==
    /\ pc = "fetch"
    /\ tzLocal = 1 /\ tzLocalStop = 1 /\ tzParis = 1 /\ tzParisStop = 1
    /\ argOffset = 0
    /\ days = 1
    /\ start = LocalMidnight(0, 1)
    /\ (start + 3) \in start..(stop - 1)
    /\ BroadcastDate(start + 3, tzParis) = -1
    /\ sfr_fetch_dates = <<-1, 0>>

----------------------------------------------------------------------------
(* Claims about a grab run, checked under SpecGrab *)

IsChannel(e) == e.tag = "channel"

IsProgramme(e) == e.tag = "programme"

KeptRecord(e) == Retained(e.prog)

\* how many entries of sequence s satisfy s[i] = x
Occurrences(s, x) == Cardinality({i \in 1..Len(s) : s[i] = x})

Progs(s) == [i \in 1..Len(s) |-> s[i].prog]

\* C1 as stated: a record of a requested channel is dropped whenever
\* program_stop <= start or program_start >= stop, and kept otherwise.
C1_Original ==
    \A i \in 1..Len(encountered) :
        LET r == encountered[i].prog
        IN  Selected(r) =>
                (ParseProgramXmltv(r) \in Range(programs_xml)
                     <=> ~(\/ Strptime(r.stop) <= start
                           \/ Strptime(r.start) >= stop))

\* C2: the channel elements of the returned document are the output ids of
\* the channels with at least one retained programme, each once; a requested
\* channel without a retained programme has none.
C2_ChannelElements ==
    document.returned =>
        LET chans == SelectSeq(document.children, IsChannel)
            kept == SelectSeq(encountered, KeptRecord)
        IN  /\ {chans[i].id : i \in 1..Len(chans)}
                   = {SfrToXmltvId(kept[i].prog.channel) : i \in 1..Len(kept)}
            /\ \A i, j \in 1..Len(chans) : chans[i].id = chans[j].id => i = j

\* two channels requested and in the catalog, one of them with retained
\* programmes and a channel element, the other read but without either
C2_Witness ==
    /\ document.returned
    /\ Cardinality(RequestedIds) = 2
    /\ Len(SelectSeq(document.children, IsChannel)) = 1
    /\ \E i \in 1..Len(encountered) :
           /\ Selected(encountered[i].prog)
           /\ SfrToXmltvId(encountered[i].prog.channel) \notin valid_xmltv_ids

\* no feed lists the same record twice
FeedsListOnce ==
    \A i, j \in 1..Len(encountered) :
        (encountered[i] = encountered[j]) => i = j

\* every record read is in the feed of its broadcast day
FeedsHoldOwnDay ==
    \A i \in 1..Len(encountered) :
        encountered[i].date
            = BroadcastDate(Strptime(encountered[i].prog.start), tzParis)

\* C6 as stated: the programme elements are the retained records in
\* feed-encounter order, after every channel element, and a program that
\* overlaps the window is in the output once even when several dates are
\* fetched.
C6_Original ==
    (document.returned /\ FeedsListOnce) =>
        LET progs == SelectSeq(document.children, IsProgramme)
            kept == SelectSeq(encountered, KeptRecord)
        IN  /\ progs = [i \in 1..Len(kept) |-> ParseProgramXmltv(kept[i].prog)]
            /\ \A i, j \in 1..Len(document.children) :
                   (/\ IsChannel(document.children[i])
                    /\ IsProgramme(document.children[j])) => i < j
            /\ \A i, j \in 1..Len(progs) : progs[i] = progs[j] => i = j

\* C6 amended: the programme elements are the retained records in
\* feed-encounter order, one for each time a retained record is read, after
\* every channel element; a program is in the output as often as its record is
\* in the fetched feeds, hence once when every feed holds the programs of its
\* own broadcast day only and lists none twice.
C6_ProgrammeElements ==
    document.returned =>
        LET progs == SelectSeq(document.children, IsProgramme)
            kept == SelectSeq(encountered, KeptRecord)
        IN  /\ progs = [i \in 1..Len(kept) |-> ParseProgramXmltv(kept[i].prog)]
            /\ \A i, j \in 1..Len(document.children) :
                   (/\ IsChannel(document.children[i])
                    /\ IsProgramme(document.children[j])) => i < j
            /\ \A r \in Range(Progs(kept)) :
                   Occurrences(progs, ParseProgramXmltv(r))
                       = Occurrences(Progs(encountered), r)
            /\ (FeedsListOnce /\ FeedsHoldOwnDay) =>
                   \A i, j \in 1..Len(progs) : progs[i] = progs[j] => i = j

\* a document with a channel element and one record read from two feeds,
\* written out twice
C6_Witness ==
    /\ document.returned
    /\ FeedsListOnce
    /\ \E i \in 1..Len(document.children) : IsChannel(document.children[i])
    /\ \E i, j \in 1..Len(encountered) :
           /\ encountered[i].date # encountered[j].date
           /\ encountered[i].prog = encountered[j].prog
           /\ Retained(encountered[i].prog)
           /\ Occurrences(SelectSeq(document.children, IsProgramme),
                          ParseProgramXmltv(encountered[i].prog)) = 2

\* C7: once a fetch has failed the run is over: nothing more is requested, no
\* document is returned, the output is not written and the exit code is not 0.
C7_FetchFailureAborts ==
    [][/\ error' = "fetch" =>
              /\ pc' = "crashed"
              /\ exitCode' = 1
              /\ document' = NoDocument
              /\ ~outputWritten'
       /\ error = "fetch" => (requests' = requests /\ error' = "fetch")]_vars

\* the fetch of the second date fails after the catalog and the first date
\* were fetched and a programme was retained
C7_Witness ==
    /\ error = "fetch"
    /\ Len(requests) = 3
    /\ programs_xml # <<>>
    /\ ~outputWritten

\* C8 as stated: without --configure, a missing selection file and a selection
\* file that gives no channel id both end the run with a non-zero exit code,
\* write_xmltv is not called, no program feed is fetched, nothing is written.
C8_Original ==
    (/\ ~configure
     /\ pc \notin {"start", "main"}
     /\ (~configFile.exists \/ ReadConfiguration(configFile.lines) = <<>>)) =>
        /\ ~writeCalled
        /\ Len(requests) = 1
        /\ ~outputWritten
        /\ exitCode # 0

\* C10 as stated: every id added to the retained-channel set is a key of the
\* catalog, so the lookup of its display name never fails.
C10_Original ==
    /\ valid_xmltv_ids \subseteq ChannelKeys
    /\ error # "KeyError"

----------------------------------------------------------------------------
(* Claims about _configure, checked under SpecConfigure *)

\* the channel at which 'all' (or 'none') was answered, 0 if it was not
AnsweredAt(a) ==
    IF \E i \in 1..Len(prompted) : prompted[i].answer = a
    THEN prompted[CHOOSE i \in 1..Len(prompted) : prompted[i].answer = a].ch
    ELSE 0

\* whether channel k of the catalog is to be in the written list
Chosen(k) ==
    \/ \E i \in 1..Len(prompted) :
           prompted[i].ch = k /\ prompted[i].answer = YES
    \/ AnsweredAt(ALL) # 0 /\ k >= AnsweredAt(ALL)

RECURSIVE ChosenFrom(_)
\* the ids of the chosen channels k..N, in catalog order
ChosenFrom(k) ==
    IF k > Len(channels) THEN <<>>
    ELSE (IF Chosen(k) THEN <<channels[k].xmltv_id>> ELSE <<>>)
             \o ChosenFrom(k + 1)

\* C9: a channel is prompted only while neither 'all' nor 'none' was answered;
\* an invalid answer prompts the same channel again and an accepted one moves
\* to the next; the latches are never both true and never reset; the written
\* list is, in catalog order, the channels answered 'yes' plus, from the
\* channel answered 'all', every channel; after 'none' nothing is added; an
\* empty answer is accepted and adds nothing.
C9_Configure ==
    /\ [](/\ \A i, j \in 1..Len(prompted) :
                 i < j => prompted[i].answer \notin {ALL, NONE_ANSWER}
          /\ \A i \in 1..Len(prompted) :
                 /\ i = 1 => prompted[i].ch = 1
                 /\ i < Len(prompted) =>
                        prompted[i + 1].ch =
                            IF Accepted(prompted[i].answer)
                            THEN prompted[i].ch + 1
                            ELSE prompted[i].ch
          /\ ~(select_all /\ select_none)
          /\ select_all <=> AnsweredAt(ALL) # 0
          /\ select_none <=> AnsweredAt(NONE_ANSWER) # 0
          /\ writtenConfig.written =>
                 /\ writtenConfig.ids = ChosenFrom(1)
                 /\ \A k \in 1..Len(channels) :
                        (\/ AnsweredAt(NONE_ANSWER) \in 1..k
                         \/ \E i \in 1..Len(prompted) :
                                prompted[i].ch = k /\ prompted[i].answer = <<>>)
                            => channels[k].xmltv_id \notin Range(writtenConfig.ids))
    /\ [][/\ select_all => select_all'
          /\ select_none => select_none']_vars

\* three channels: an invalid answer, then 'yes', then '', then 'all'
C9_Witness ==
    /\ writtenConfig.written
    /\ Len(channels) = 3
    /\ \E i \in 1..Len(prompted) : ~Accepted(prompted[i].answer)
    /\ \E i \in 1..Len(prompted) : prompted[i].ch = 1 /\ prompted[i].answer = YES
    /\ \E i \in 1..Len(prompted) : prompted[i].ch = 2 /\ prompted[i].answer = <<>>
    /\ AnsweredAt(ALL) = 3
    /\ writtenConfig.ids = <<channels[1].xmltv_id, channels[3].xmltv_id>>

====
